---- MODULE Spec2Model ----
(***************************************************************************)
(* Model of form.py: a bulk form submitter.  The configuration is read     *)
(* once, the records are read from ADDRESS_FILE, and main() submits one    *)
(* payload per record through submit_with_retries, writing one row per     *)
(* record to OUTPUT_CSV.                                                   *)
(*                                                                         *)
(* Python values are represented as follows: a str is a TLA+ string, a     *)
(* list is a sequence, a dict is a function, an optional value (None or    *)
(* an object) is a sequence of length 0 or 1.                              *)
(***************************************************************************)
EXTENDS Integers, Sequences, FiniteSets, TLC

VARIABLES
    cfg,        \* the module-level configuration (lines 52-103), immutable
    fileLines,  \* ADDRESS_FILE: <<>> when missing, else <<lines>>, each line stripped
    outFile,    \* OUTPUT_CSV on disk: [exists, header, rows]
    outFile0,   \* OUTPUT_CSV as it was when the process started
    pc,         \* position of main() / submit_with_retries()
    addresses,  \* main: addresses
    session,    \* main: s (<<>> before mk_session())
    f,          \* main: the log handle: "unopened", "open", "closed"
    i,          \* main: index of the record being processed (enumerate, start=1)
    username,   \* main: username
    payload,    \* main: payload
    attempt,    \* submit_with_retries: attempt
    last_exc,   \* submit_with_retries: last_exc (<<>> is None)
    resp,       \* main: resp (<<>> while no response was returned)
    raised,     \* main: e, the exception caught at line 247 (<<>> if none)
    posts,      \* number of session.post calls made by the run
    post_n,     \* number of session.post calls made by the current submit call
    sleeps      \* the time.sleep arguments of the current submit call, in order

vars == <<cfg, fileLines, outFile, outFile0, pc, addresses, session, f, i,
          username, payload, attempt, last_exc, resp, raised, posts, post_n, sleeps>>

envVars == <<cfg, fileLines, outFile0>>

-----------------------------------------------------------------------------
(* Bounds of the model *)

\* longest ADDRESS_FILE, in lines
MaxLines == 2
\* largest MAX_RETRIES tried
MaxAttempts == 2
\* longest comma-separated ADDRESS_KEYS / CHECKBOX_KEYS setting, in items,
\* and number of EXTRA_FIELD_<i> slots that are set
MaxKeys == 1

\* sequences over S of length at most n
RECURSIVE SeqsUpTo(_, _)
SeqsUpTo(S, n) ==
    IF n = 0 THEN {<<>>}
    ELSE LET shorter == SeqsUpTo(S, n - 1)
         IN  shorter \cup {Append(q, x) : q \in {r \in shorter : Len(r) = n - 1}, x \in S}

-----------------------------------------------------------------------------
(* Configuration *)

FORM_RESPONSE_URL == cfg.FORM_RESPONSE_URL
MAX_RETRIES == cfg.MAX_RETRIES
FVV == cfg.FVV
PAGE_HISTORY == cfg.PAGE_HISTORY
FBZX == cfg.FBZX
PARTIAL_RESPONSE == cfg.PARTIAL_RESPONSE
ENTRY_USERNAME == cfg.ENTRY_USERNAME
ENTRY_ADDRESS == cfg.ENTRY_ADDRESS
ENTRY_YES == cfg.ENTRY_YES
ENTRY_DONE == cfg.ENTRY_DONE
ENTRY_YES_SENTINEL == cfg.ENTRY_YES_SENTINEL
ENTRY_DONE_SENTINEL == cfg.ENTRY_DONE_SENTINEL
ADDRESS_KEYS == cfg.ADDRESS_KEYS
CHECKBOX_KEYS == cfg.CHECKBOX_KEYS
AUTO_SENTINEL_FOR_CHECKBOX == cfg.AUTO_SENTINEL_FOR_CHECKBOX
EXTRA_FIELDS == cfg.EXTRA_FIELDS
BASE_USERNAME == "bebas"
VALUE_YES == "Yes"
VALUE_DONE == "Done"
CHECKBOX_VALUE == "Completed"

\* parse_csv_list(s): s is given as the stripped pieces of s.split(","); the
\* pieces that are empty after stripping are dropped
parse_csv_list(s) == SelectSeq(s, LAMBDA x : x # "")

\* payload[k] = v on a dict
Put(p, k, v) == [x \in (DOMAIN p) \cup {k} |-> IF x = k THEN v ELSE p[x]]

\* extra_fields_from_env: env is the sequence of (EXTRA_FIELD_i_KEY,
\* EXTRA_FIELD_i_VALUE) pairs in slot order; unset slots read as ("", "")
RECURSIVE extra_fields_from_env(_)
extra_fields_from_env(env) ==
    IF env = <<>> THEN <<>>
    ELSE LET extras == extra_fields_from_env(SubSeq(env, 1, Len(env) - 1))
             kv == env[Len(env)]
         IN  IF kv[1] # "" THEN Put(extras, kv[1], kv[2]) ELSE extras

-----------------------------------------------------------------------------
(* build_payload *)

\* lines 124-125
PutUsername(p, uname) ==
    IF ENTRY_USERNAME # "" /\ uname # "" THEN Put(p, ENTRY_USERNAME, uname) ELSE p

\* lines 128-129
PutAddress(p, address) ==
    IF ENTRY_ADDRESS # "" /\ address # "" THEN Put(p, ENTRY_ADDRESS, address) ELSE p

\* lines 132-133
RECURSIVE PutAddressKeys(_, _, _)
PutAddressKeys(p, ks, address) ==
    IF ks = <<>> THEN p
    ELSE PutAddressKeys(Put(p, Head(ks), address), Tail(ks), address)

\* lines 136-139
RECURSIVE PutCheckboxKeys(_, _)
PutCheckboxKeys(p, ks) ==
    IF ks = <<>> THEN p
    ELSE LET p1 == Put(p, Head(ks), CHECKBOX_VALUE)
             p2 == IF AUTO_SENTINEL_FOR_CHECKBOX
                   THEN Put(p1, Head(ks) \o "_sentinel", "")
                   ELSE p1
         IN  PutCheckboxKeys(p2, Tail(ks))

\* a slip: the sentinel is written whenever it is configured
PutYesUnguarded(p) ==
    LET p1 == IF ENTRY_YES # "" THEN Put(p, ENTRY_YES, VALUE_YES) ELSE p
    IN  IF ENTRY_YES_SENTINEL # "" THEN Put(p1, ENTRY_YES_SENTINEL, "") ELSE p1

\* lines 142-145
PutYes(p) ==
    IF ENTRY_YES # ""
    THEN LET p1 == Put(p, ENTRY_YES, VALUE_YES)
         IN  IF ENTRY_YES_SENTINEL # "" THEN Put(p1, ENTRY_YES_SENTINEL, "") ELSE p1
    ELSE p

\* lines 146-149
PutDone(p) ==
    IF ENTRY_DONE # ""
    THEN LET p1 == Put(p, ENTRY_DONE, VALUE_DONE)
         IN  IF ENTRY_DONE_SENTINEL # "" THEN Put(p1, ENTRY_DONE_SENTINEL, "") ELSE p1
    ELSE p

\* lines 152-153
PutExtras(p) ==
    [x \in (DOMAIN p) \cup (DOMAIN EXTRA_FIELDS) |->
        IF x \in DOMAIN EXTRA_FIELDS THEN EXTRA_FIELDS[x] ELSE p[x]]

\* lines 156-167
PutProtocol(p) ==
    LET p1 == IF FVV # "" THEN Put(p, "fvv", FVV) ELSE p
        p2 == IF PAGE_HISTORY # "" THEN Put(p1, "pageHistory", PAGE_HISTORY) ELSE p1
        p3 == IF FBZX # "" THEN Put(p2, "fbzx", FBZX) ELSE p2
        pr == IF PARTIAL_RESPONSE = "" /\ FBZX # ""
              THEN "[null,null,\"" \o FBZX \o "\"]"
              ELSE PARTIAL_RESPONSE
    IN  IF pr # "" THEN Put(p3, "partialResponse", pr) ELSE p3

build_payload(uname, address) ==
    PutProtocol(PutExtras(PutDone(PutYes(
        PutCheckboxKeys(
            PutAddressKeys(PutAddress(PutUsername(<<>>, uname), address),
                           ADDRESS_KEYS, address),
            CHECKBOX_KEYS)))))

-----------------------------------------------------------------------------
(* Helpers of main *)

Digits == <<"0", "1", "2", "3", "4", "5", "6", "7", "8", "9">>

\* str(n) of a non-negative int, as f-strings and csv.DictWriter format it
RECURSIVE IntToStr(_)
IntToStr(n) ==
    IF n < 10 THEN Digits[n + 1]
    ELSE IntToStr(n \div 10) \o Digits[(n % 10) + 1]

\* str(b) of a bool, as csv.DictWriter formats it
BoolToStr(b) == IF b THEN "True" ELSE "False"

\* the values random.randint(1000, 9999) is modelled to return
RandInts == {1000, 9999}

gen_username(prefix, n) == prefix \o IntToStr(n)

\* read_addresses(path): file is <<>> when the path does not exist, else
\* <<lines>> with every line already stripped
read_addresses(file) ==
    IF file = <<>> THEN <<>> ELSE SelectSeq(file[1], LAMBDA s : s # "")

\* a slip: the protocol parameters count as configured fields
FieldsPopulatedWithProtocol ==
    \/ ENTRY_USERNAME # "" \/ ENTRY_ADDRESS # "" \/ ENTRY_YES # "" \/ ENTRY_DONE # ""
    \/ ADDRESS_KEYS # <<>> \/ CHECKBOX_KEYS # <<>> \/ DOMAIN EXTRA_FIELDS # {}
    \/ FVV # "" \/ PAGE_HISTORY # ""

\* the condition negated at line 210
FieldsPopulated ==
    \/ ENTRY_USERNAME # "" \/ ENTRY_ADDRESS # "" \/ ENTRY_YES # "" \/ ENTRY_DONE # ""
    \/ ADDRESS_KEYS # <<>> \/ CHECKBOX_KEYS # <<>> \/ DOMAIN EXTRA_FIELDS # {}

\* a slip: 400 counts as success
IsOkInclusive(status_code) == 200 <= status_code /\ status_code <= 400

\* line 236
IsOk(status_code) == 200 <= status_code /\ status_code < 400

\* the HTTP statuses a response is modelled to carry
Statuses == {199, 200, 399, 400, 500}

\* the requests.RequestException kinds session.post is modelled to raise
TransportErrors == {"ConnectionError", "Timeout"}

Fieldnames == <<"timestamp", "username", "address", "status_code", "ok", "resp_snippet">>

\* the rows hold every column but the timestamp
Row(u, a, sc, ok, snip) ==
    [username |-> u, address |-> a, status_code |-> sc, ok |-> ok, resp_snippet |-> snip]

-----------------------------------------------------------------------------
(* Initial states *)

Url == "https://form/formResponse"

BaseCfg ==
    [FORM_RESPONSE_URL |-> Url, MAX_RETRIES |-> 2, FVV |-> "1", PAGE_HISTORY |-> "0",
     FBZX |-> "", PARTIAL_RESPONSE |-> "",
     ENTRY_USERNAME |-> "", ENTRY_ADDRESS |-> "", ENTRY_YES |-> "", ENTRY_DONE |-> "",
     ENTRY_YES_SENTINEL |-> "", ENTRY_DONE_SENTINEL |-> "",
     ADDRESS_KEYS |-> parse_csv_list(<<>>), CHECKBOX_KEYS |-> parse_csv_list(<<>>),
     AUTO_SENTINEL_FOR_CHECKBOX |-> TRUE,
     EXTRA_FIELDS |-> extra_fields_from_env(<<>>)]

\* one configuration per field-bearing setting, and one with none of them
FieldCfgs ==
    { BaseCfg,
      [BaseCfg EXCEPT !.ENTRY_USERNAME = "entry.1"],
      [BaseCfg EXCEPT !.ENTRY_ADDRESS = "entry.2"],
      [BaseCfg EXCEPT !.ENTRY_YES = "entry.3", !.ENTRY_YES_SENTINEL = "entry.3_sentinel"],
      [BaseCfg EXCEPT !.ENTRY_DONE = "entry.4"],
      [BaseCfg EXCEPT !.ADDRESS_KEYS = parse_csv_list(<<"entry.5", "">>)],
      [BaseCfg EXCEPT !.CHECKBOX_KEYS = parse_csv_list(<<"entry.6">>)],
      [BaseCfg EXCEPT !.EXTRA_FIELDS = extra_fields_from_env(<<<<"entry.7", "v">>>>)] }

\* every field configuration with the target URL set and unset, and one of
\* them with every MAX_RETRIES from -1 (the loader accepts any int) up
DriverCfgs ==
    { [c EXCEPT !.FORM_RESPONSE_URL = u, !.MAX_RETRIES = 1] :
        c \in FieldCfgs, u \in {"", Url} }
    \cup
    { [BaseCfg EXCEPT !.ENTRY_ADDRESS = "entry.2", !.MAX_RETRIES = n] :
        n \in (0 - 1)..MaxAttempts }

\* ADDRESS_FILE: missing, or up to MaxLines stripped lines
Files == {<<>>} \cup { <<ls>> : ls \in SeqsUpTo({"", "x", "y"}, MaxLines) }

\* OUTPUT_CSV left by an earlier run, or absent
OldRow == Row("", "old", "200", "True", "body")
OutFiles ==
    { [exists |-> FALSE, header |-> <<>>, rows |-> <<>>],
      [exists |-> TRUE, header |-> Fieldnames, rows |-> <<OldRow>>] }

InitLocals ==
    /\ addresses = <<>>
    /\ session = <<>>
    /\ f = "unopened"
    /\ i = 1
    /\ username = ""
    /\ payload = <<>>
    /\ attempt = 1
    /\ last_exc = <<>>
    /\ resp = <<>>
    /\ raised = <<>>
    /\ posts = 0
    /\ post_n = 0
    /\ sleeps = <<>>

Init ==
    /\ cfg \in DriverCfgs
    /\ fileLines \in Files
    /\ outFile \in OutFiles
    /\ outFile0 = outFile
    /\ pc = "check_url"
    /\ InitLocals

-----------------------------------------------------------------------------
(* main *)

\* lines 205-207
CheckUrl ==
    /\ pc = "check_url"
    /\ pc' = IF FORM_RESPONSE_URL = "" THEN "returned" ELSE "check_fields"
    /\ UNCHANGED <<envVars, outFile, addresses, session, f, i, username, payload,
                   attempt, last_exc, resp, raised, posts, post_n, sleeps>>

\* lines 210-212
CheckFields ==
    /\ pc = "check_fields"
    /\ pc' = IF ~FieldsPopulated THEN "returned" ELSE "read_addresses"
    /\ UNCHANGED <<envVars, outFile, addresses, session, f, i, username, payload,
                   attempt, last_exc, resp, raised, posts, post_n, sleeps>>

\* a slip: the log is opened before the records are checked
ReadAddressesAfterOpen ==
    /\ pc = "read_addresses"
    /\ addresses' = read_addresses(fileLines)
    /\ outFile' = [exists |-> TRUE, header |-> Fieldnames, rows |-> <<>>]
    /\ pc' = IF addresses' = <<>> THEN "returned" ELSE "mk_session"
    /\ UNCHANGED <<envVars, session, f, i, username, payload,
                   attempt, last_exc, resp, raised, posts, post_n, sleeps>>

\* lines 214-217
ReadAddresses ==
    /\ pc = "read_addresses"
    /\ addresses' = read_addresses(fileLines)
    /\ pc' = IF addresses' = <<>> THEN "returned" ELSE "mk_session"
    /\ UNCHANGED <<envVars, outFile, session, f, i, username, payload,
                   attempt, last_exc, resp, raised, posts, post_n, sleeps>>

\* line 219
MkSession ==
    /\ pc = "mk_session"
    /\ session' = <<"Session">>
    /\ pc' = "open_log"
    /\ UNCHANGED <<envVars, outFile, addresses, f, i, username, payload,
                   attempt, last_exc, resp, raised, posts, post_n, sleeps>>

\* lines 221-227: open(OUTPUT_CSV, "w") truncates, writeheader
OpenLog ==
    /\ pc = "open_log"
    /\ f' = "open"
    /\ outFile' = [exists |-> TRUE, header |-> Fieldnames, rows |-> <<>>]
    /\ i' = 1
    /\ pc' = "for"
    /\ UNCHANGED <<envVars, addresses, session, username, payload,
                   attempt, last_exc, resp, raised, posts, post_n, sleeps>>

\* lines 228-235: the next record; the call of submit_with_retries (line 191)
NextRecord ==
    /\ pc = "for"
    /\ i <= Len(addresses)
    /\ \E n \in RandInts :
         username' = IF ENTRY_USERNAME # "" THEN gen_username(BASE_USERNAME, n) ELSE ""
    /\ payload' = build_payload(username', addresses[i])
    /\ attempt' = 1
    /\ last_exc' = <<>>
    /\ resp' = <<>>
    /\ raised' = <<>>
    /\ post_n' = 0
    /\ sleeps' = <<>>
    /\ pc' = "submit"
    /\ UNCHANGED <<envVars, outFile, addresses, session, f, i, posts>>

\* a slip: a server error is retried like a transport failure
PostReturnsRetry5xx(status_code) ==
    /\ pc = "submit"
    /\ attempt <= MAX_RETRIES
    /\ posts' = posts + 1
    /\ post_n' = post_n + 1
    /\ resp' = <<[status_code |-> status_code, text |-> "body"]>>
    /\ pc' = IF status_code >= 400 THEN "sleep" ELSE "row_ok"
    /\ UNCHANGED <<envVars, outFile, addresses, session, f, i, username, payload,
                   attempt, last_exc, raised, sleeps>>

\* lines 192-195: an attempt that receives a response
PostReturns(status_code) ==
    /\ pc = "submit"
    /\ attempt <= MAX_RETRIES
    /\ posts' = posts + 1
    /\ post_n' = post_n + 1
    /\ resp' = <<[status_code |-> status_code, text |-> "body"]>>
    /\ pc' = "row_ok"
    /\ UNCHANGED <<envVars, outFile, addresses, session, f, i, username, payload,
                   attempt, last_exc, raised, sleeps>>

\* lines 192-198: an attempt that ends in a requests.RequestException
PostFails(e) ==
    /\ pc = "submit"
    /\ attempt <= MAX_RETRIES
    /\ posts' = posts + 1
    /\ post_n' = post_n + 1
    /\ last_exc' = <<e>>
    /\ pc' = "sleep"
    /\ UNCHANGED <<envVars, outFile, addresses, session, f, i, username, payload,
                   attempt, resp, raised, sleeps>>

\* line 199, and the step of the for loop of line 192
Sleep ==
    /\ pc = "sleep"
    /\ sleeps' = Append(sleeps, 1 + attempt)
    /\ attempt' = attempt + 1
    /\ pc' = "submit"
    /\ UNCHANGED <<envVars, outFile, addresses, session, f, i, username, payload,
                   last_exc, resp, raised, posts, post_n>>

\* a slip: one attempt too few
RaiseEarly ==
    /\ pc = "submit"
    /\ attempt >= MAX_RETRIES
    /\ raised' = IF last_exc # <<>> THEN last_exc ELSE <<"request failed">>
    /\ pc' = "row_err"
    /\ UNCHANGED <<envVars, outFile, addresses, session, f, i, username, payload,
                   attempt, last_exc, resp, posts, post_n, sleeps>>

\* line 200, caught at line 247
Raise ==
    /\ pc = "submit"
    /\ attempt > MAX_RETRIES
    /\ raised' = IF last_exc # <<>> THEN last_exc ELSE <<"request failed">>
    /\ pc' = "row_err"
    /\ UNCHANGED <<envVars, outFile, addresses, session, f, i, username, payload,
                   attempt, last_exc, resp, posts, post_n, sleeps>>

\* lines 236-246
WriteRowOk ==
    /\ pc = "row_ok"
    /\ outFile' = [outFile EXCEPT !.rows =
                     Append(@, Row(username, addresses[i],
                                   IntToStr(resp[1].status_code),
                                   BoolToStr(IsOk(resp[1].status_code)),
                                   resp[1].text))]
    /\ pc' = "delay"
    /\ UNCHANGED <<envVars, addresses, session, f, i, username, payload,
                   attempt, last_exc, resp, raised, posts, post_n, sleeps>>

\* a slip: the exception is not caught per record and ends the run
WriteRowErrAborts ==
    /\ pc = "row_err"
    /\ f' = "closed"
    /\ pc' = "returned"
    /\ UNCHANGED <<envVars, outFile, addresses, session, i, username, payload,
                   attempt, last_exc, resp, raised, posts, post_n, sleeps>>

\* a slip: the failed record is skipped without a row
WriteRowErrSkips ==
    /\ pc = "row_err"
    /\ pc' = "delay"
    /\ UNCHANGED <<envVars, outFile, addresses, session, f, i, username, payload,
                   attempt, last_exc, resp, raised, posts, post_n, sleeps>>

\* lines 247-256
WriteRowErr ==
    /\ pc = "row_err"
    /\ outFile' = [outFile EXCEPT !.rows =
                     Append(@, Row(username, addresses[i], "ERR", BoolToStr(FALSE),
                                   raised[1]))]
    /\ pc' = "delay"
    /\ UNCHANGED <<envVars, addresses, session, f, i, username, payload,
                   attempt, last_exc, resp, raised, posts, post_n, sleeps>>

\* line 258, and the step of the for loop of line 228
Delay ==
    /\ pc = "delay"
    /\ i' = i + 1
    /\ pc' = "for"
    /\ UNCHANGED <<envVars, outFile, addresses, session, f, username, payload,
                   attempt, last_exc, resp, raised, posts, post_n, sleeps>>

\* the end of the with block of line 221, and line 260
CloseLog ==
    /\ pc = "for"
    /\ i > Len(addresses)
    /\ f' = "closed"
    /\ pc' = "done"
    /\ UNCHANGED <<envVars, outFile, addresses, session, i, username, payload,
                   attempt, last_exc, resp, raised, posts, post_n, sleeps>>

Next ==
    \/ CheckUrl
    \/ CheckFields
    \/ ReadAddresses
    \/ MkSession
    \/ OpenLog
    \/ NextRecord
    \/ \E status_code \in Statuses : PostReturns(status_code)
    \/ \E e \in TransportErrors : PostFails(e)
    \/ Sleep
    \/ Raise
    \/ WriteRowOk
    \/ WriteRowErr
    \/ Delay
    \/ CloseLog

Spec == Init /\ [][Next]_vars

\* main runs to its end: nothing but the process being killed stops a step
FairSpec == Spec /\ WF_vars(Next)

-----------------------------------------------------------------------------
(* build_payload on its own: every configuration and input within the bounds *)

Pieces(S) == SeqsUpTo(S, MaxKeys)

PayloadCfgs ==
    { [BaseCfg EXCEPT
         !.ENTRY_USERNAME = eu, !.ENTRY_ADDRESS = ea,
         !.ENTRY_YES = ey, !.ENTRY_YES_SENTINEL = eys,
         !.ENTRY_DONE = ed, !.ENTRY_DONE_SENTINEL = eds,
         !.ADDRESS_KEYS = parse_csv_list(ak),
         !.CHECKBOX_KEYS = parse_csv_list(ck),
         !.AUTO_SENTINEL_FOR_CHECKBOX = auto,
         !.EXTRA_FIELDS = extra_fields_from_env(ex),
         !.FBZX = pp[1], !.PARTIAL_RESPONSE = pp[2]] :
        eu \in {"", "u"}, ea \in {"", "a"},
        ey \in {"", "y"}, eys \in {"", "y_sentinel"},
        ed \in {"", "d"}, eds \in {"", "d_sentinel"},
        ak \in Pieces({"", "k"}), ck \in Pieces({"", "y"}),
        auto \in BOOLEAN,
        ex \in Pieces({<<"", "v">>, <<"d_sentinel", "v">>}),
        pp \in {<<"", "">>, <<"xyz", "">>, <<"xyz", "pr">>} }

InitPayload ==
    /\ cfg \in PayloadCfgs
    /\ fileLines = <<>>
    /\ outFile = [exists |-> FALSE, header |-> <<>>, rows |-> <<>>]
    /\ outFile0 = outFile
    /\ pc = "build_payload"
    /\ addresses \in {<<"">>, <<"x">>}
    /\ session = <<>>
    /\ f = "unopened"
    /\ i = 1
    /\ username \in {"", gen_username(BASE_USERNAME, 1000)}
    /\ payload = <<>>
    /\ attempt = 1
    /\ last_exc = <<>>
    /\ resp = <<>>
    /\ raised = <<>>
    /\ posts = 0
    /\ post_n = 0
    /\ sleeps = <<>>

\* line 231, on the inputs of InitPayload
BuildPayload ==
    /\ pc = "build_payload"
    /\ payload' = build_payload(username, addresses[i])
    /\ pc' = "built"
    /\ UNCHANGED <<envVars, outFile, addresses, session, f, i, username,
                   attempt, last_exc, resp, raised, posts, post_n, sleeps>>

NextPayload == BuildPayload

PayloadSpec == InitPayload /\ [][NextPayload]_vars

-----------------------------------------------------------------------------
(* Properties *)

Range(q) == { q[k] : k \in 1..Len(q) }

\* the record source yields zero records
NoRecords == fileLines = <<>> \/ \A k \in 1..Len(fileLines[1]) : fileLines[1][k] = ""

\* the records of ADDRESS_FILE, in file order
Records ==
    IF fileLines = <<>> THEN <<>> ELSE SelectSeq(fileLines[1], LAMBDA s : s # "")

NoFieldIdentifier ==
    /\ cfg.ENTRY_USERNAME = "" /\ cfg.ENTRY_ADDRESS = ""
    /\ cfg.ENTRY_YES = "" /\ cfg.ENTRY_DONE = ""
    /\ cfg.ADDRESS_KEYS = <<>> /\ cfg.CHECKBOX_KEYS = <<>>
    /\ DOMAIN cfg.EXTRA_FIELDS = {}

\* one of the three validation checks of main fails
GateFails == cfg.FORM_RESPONSE_URL = "" \/ NoFieldIdentifier \/ NoRecords

Validating == pc \in {"check_url", "check_fields", "read_addresses"}

LastRow == outFile.rows[Len(outFile.rows)]

\* C1: when the URL is empty, or no field-bearing setting is populated, or
\* the record source yields no record, no POST is ever performed, the run
\* never leaves the validation steps except by returning, and it is never
\* stuck before it has returned.
C1_ValidationGate ==
    GateFails =>
        /\ posts = 0
        /\ Validating \/ pc = "returned"
        /\ pc = "returned" \/ ENABLED Next

C1_Witness ==
    /\ pc = "returned"
    /\ cfg.FORM_RESPONSE_URL # ""
    /\ NoFieldIdentifier
    /\ ~NoRecords
    /\ posts = 0

\* C2: once the log is open it holds exactly one row per record processed so
\* far, row j carrying record j, and when it is closed it holds one row per
\* record.
C2_OneRowPerRecord ==
    f # "unopened" =>
        LET rows == outFile.rows
            processed == CASE pc = "delay" -> i
                           [] pc = "done" -> Len(Records)
                           [] OTHER -> i - 1
        IN  /\ Len(rows) = processed
            /\ \A j \in 1..Len(rows) : j <= Len(Records) /\ rows[j].address = Records[j]
            /\ f = "closed" => Len(rows) = Len(Records)

C2_Witness ==
    /\ f = "closed"
    /\ Len(outFile.rows) = 2
    /\ outFile.rows[1].address = "y"
    /\ outFile.rows[2].address = "x"
    /\ outFile.rows[1].status_code = "ERR"
    /\ outFile.rows[2].status_code = "500"

\* C3: with MAX_RETRIES = N >= 1, a submit call never makes more than N
\* POSTs, and when it propagates a failure it has made exactly N POSTs, every
\* one of them failed, and no response is returned.
C3_ExactlyNAttempts ==
    MAX_RETRIES >= 1 =>
        /\ post_n <= MAX_RETRIES
        /\ pc = "submit" => post_n = attempt - 1 /\ resp = <<>>
        /\ pc = "row_err" =>
              /\ post_n = MAX_RETRIES
              /\ resp = <<>>
              /\ raised # <<>>

C3_Witness ==
    /\ pc = "row_err"
    /\ MAX_RETRIES = 2
    /\ post_n = 2
    /\ raised # <<>>

\* C4: once an attempt has received a response, of any status, the response
\* is the result of the call: no further POST and no backoff wait happens for
\* that payload; an attempt after the first is made only after a transport
\* failure, with no response received.
C4_ResponseReturnedImmediately ==
    [][ /\ (resp # <<>> /\ pc # "for") =>
              /\ posts' = posts
              /\ sleeps' = sleeps
              /\ resp' = resp
              /\ pc' \in {"row_ok", "delay", "for"}
        /\ (resp = <<>> /\ resp' # <<>>) => pc' = "row_ok"
        /\ (post_n' = post_n + 1 /\ post_n >= 1) => (last_exc # <<>> /\ resp = <<>>)
      ]_vars

C4_Witness ==
    /\ pc = "delay"
    /\ resp # <<>>
    /\ resp[1].status_code = 500
    /\ post_n = 2
    /\ Len(sleeps) = 1
    /\ LastRow.status_code = "500"

\* C5: once validation has passed, the run reaches its end with the log
\* closed and one row per record, whatever fails on the way; and the row of
\* a record whose submission failed carries the error marker ERR.
C5_RunCompletes ==
    /\ (pc = "mk_session") ~>
          (pc = "done" /\ f = "closed" /\ Len(outFile.rows) = Len(Records))
    /\ [](pc = "delay" /\ raised # <<>> =>
             /\ i <= Len(Records)
             /\ LastRow.address = Records[i]
             /\ LastRow.status_code = "ERR")

C5_Witness ==
    /\ pc = "done"
    /\ f = "closed"
    /\ Len(outFile.rows) = 2
    /\ \A j \in 1..2 : outFile.rows[j].status_code = "ERR"

OkStatusTexts == { IntToStr(s) : s \in { t \in Statuses : t \in 200..399 } }

FailedStatusTexts == { IntToStr(s) : s \in { t \in Statuses : t \notin 200..399 } }

\* C6: a logged row's ok flag is True exactly when the submission returned a
\* response with 200 <= status < 400, and the row then carries that status;
\* any other status gives False, and a failure that was propagated gives
\* False with the status ERR.
C6_OkClassification ==
    /\ (pc = "delay" /\ resp # <<>>) =>
          /\ LastRow.status_code = IntToStr(resp[1].status_code)
          /\ LastRow.ok = "True" <=> resp[1].status_code \in 200..399
          /\ LastRow.ok = "False" <=> resp[1].status_code \notin 200..399
    /\ (pc = "delay" /\ raised # <<>>) =>
          /\ LastRow.status_code = "ERR"
          /\ LastRow.ok = "False"
    /\ f # "unopened" =>
          \A j \in 1..Len(outFile.rows) :
              LET r == outFile.rows[j]
              IN  /\ r.ok = "True" => r.status_code \in OkStatusTexts
                  /\ r.ok # "True" =>
                        r.ok = "False" /\ r.status_code \in FailedStatusTexts \cup {"ERR"}

C6_Witness ==
    /\ pc = "delay"
    /\ resp # <<>>
    /\ resp[1].status_code = 200
    /\ LastRow.ok = "True"
    /\ LastRow.status_code = "200"

\* the keys named by the settings other than ENTRY_YES and its sentinel
KeysBesidesYes ==
    {cfg.ENTRY_USERNAME, cfg.ENTRY_ADDRESS, cfg.ENTRY_DONE, cfg.ENTRY_DONE_SENTINEL}
    \cup Range(cfg.ADDRESS_KEYS) \cup Range(cfg.CHECKBOX_KEYS)
    \cup { k \o "_sentinel" : k \in Range(cfg.CHECKBOX_KEYS) }
    \cup DOMAIN cfg.EXTRA_FIELDS
    \cup {"fvv", "pageHistory", "fbzx", "partialResponse"}

\* the keys named by the settings other than ENTRY_DONE and its sentinel
KeysBesidesDone ==
    {cfg.ENTRY_USERNAME, cfg.ENTRY_ADDRESS, cfg.ENTRY_YES, cfg.ENTRY_YES_SENTINEL}
    \cup Range(cfg.ADDRESS_KEYS) \cup Range(cfg.CHECKBOX_KEYS)
    \cup { k \o "_sentinel" : k \in Range(cfg.CHECKBOX_KEYS) }
    \cup DOMAIN cfg.EXTRA_FIELDS
    \cup {"fvv", "pageHistory", "fbzx", "partialResponse"}

\* C7: the built payload never has the empty string as a key, and when
\* ENTRY_YES (ENTRY_DONE) is empty the key named by its sentinel setting is
\* absent too, unless another setting names the same key.
C7_NoKeyForEmptySetting ==
    pc = "built" =>
        /\ "" \notin DOMAIN payload
        /\ (cfg.ENTRY_YES = "" /\ cfg.ENTRY_YES_SENTINEL \notin KeysBesidesYes) =>
              cfg.ENTRY_YES_SENTINEL \notin DOMAIN payload
        /\ (cfg.ENTRY_DONE = "" /\ cfg.ENTRY_DONE_SENTINEL \notin KeysBesidesDone) =>
              cfg.ENTRY_DONE_SENTINEL \notin DOMAIN payload

C7_Witness ==
    /\ pc = "built"
    /\ cfg.ENTRY_YES = ""
    /\ cfg.ENTRY_YES_SENTINEL = "y_sentinel"
    /\ cfg.CHECKBOX_KEYS = <<"y">>
    /\ ~cfg.AUTO_SENTINEL_FOR_CHECKBOX
    /\ DOMAIN payload = {"y", "fvv", "pageHistory"}

\* C8: a submit call that has made P >= 1 POSTs has waited P - 1 times, the
\* k-th wait lasting 1 + k, when it hands its result to main.
C8_WaitsBetweenAttemptsOnly ==
    (pc \in {"row_ok", "row_err"} /\ post_n >= 1) =>
        /\ Len(sleeps) = post_n - 1
        /\ \A k \in 1..Len(sleeps) : sleeps[k] = 1 + k

\* C9: whenever submit_with_retries signals a failure, the failure is the
\* transport exception of its last POST, at least one POST was made, and the
\* generic failure is not what is raised.
C9_FailureIsLastTransportException ==
    pc = "row_err" =>
        /\ post_n >= 1
        /\ last_exc # <<>>
        /\ raised = last_exc
        /\ raised # <<"request failed">>

\* C10: while main validates, and for good when validation fails, the log
\* file is as the run found it, the log is not open and no session exists.
C10_FailedRunLeavesLogUntouched ==
    (Validating \/ pc = "returned" \/ GateFails) =>
        /\ outFile = outFile0
        /\ f = "unopened"
        /\ session = <<>>

C10_Witness ==
    /\ pc = "returned"
    /\ cfg.FORM_RESPONSE_URL # ""
    /\ ~NoFieldIdentifier
    /\ NoRecords
    /\ outFile0.exists
    /\ outFile = outFile0
    /\ outFile.rows # <<>>

====
